---- MODULE Spec2Model ----
(***************************************************************************)
(* Model of the device socket of the kiosk control panel                   *)
(* (cloud/web/src/lib/deviceSocket.js): a request/response channel with    *)
(* push dispatch layered over one WebSocket at a time.                     *)
(*                                                                         *)
(* The channel's closure variables are the state.  Every WebSocket the     *)
(* channel creates is kept in socks; the handlers installed on a socket    *)
(* close over the channel's shared variables, so the handlers of a socket  *)
(* the channel no longer refers to still act on the same state.  The       *)
(* browser's WebSocket is the environment: it opens, delivers message      *)
(* events while OPEN, and ends with one task that sets CLOSED, fires error *)
(* when the connection failed, and then fires close.                       *)
(***************************************************************************)
EXTENDS Integers, Sequences, FiniteSets, TLC

\* ------------------------------------------------------------------ bounds
MaxRequests == 2
MaxSockets == 3
MaxListeners == 1

\* --------------------------------------------------------- message values
AbsentId == -1
NullId == -2

\* The members handleMessage reads of a parsed value.  kind is "object",
\* "array", "number", "string" or "boolean", and "none" for null; lit is the
\* literal of a number, string or boolean.
NoMsg ==
  [kind |-> "none", id |-> AbsentId, success |-> "absent", hasErrors |-> FALSE,
   errors |-> <<>>, hasEvent |-> FALSE, event |-> <<>>, data |-> "none",
   lit |-> ""]

\* A number, string or boolean.
Scalar(kind, lit) == [NoMsg EXCEPT !.kind = kind, !.lit = lit]

\* The object without members.
EmptyObject == [NoMsg EXCEPT !.kind = "object"]

\* An array; it has no members named id or event.
ArrayValue == [NoMsg EXCEPT !.kind = "array"]

\* A response object { id, success?, errors?, event?, data? }.
Response(i, succ, hasErr, errs, hasEv, ev, d) ==
  [kind |-> "object", id |-> i, success |-> succ, hasErrors |-> hasErr,
   errors |-> errs, hasEvent |-> hasEv, event |-> ev, data |-> d, lit |-> ""]

\* A push object { event, data? } whose id is absent or null.
Push(i, ev, d) ==
  [kind |-> "object", id |-> i, success |-> "absent", hasErrors |-> FALSE,
   errors |-> <<>>, hasEvent |-> TRUE, event |-> ev, data |-> d, lit |-> ""]

HELLO == <<"hello">>

\* String.prototype.trim on an event name (a sequence of characters).
RECURSIVE TrimNameStart(_)
TrimNameStart(n) ==
  IF n # <<>> /\ Head(n) = " " THEN TrimNameStart(Tail(n)) ELSE n

RECURSIVE TrimNameEnd(_)
TrimNameEnd(n) ==
  IF n # <<>> /\ n[Len(n)] = " " THEN TrimNameEnd(SubSeq(n, 1, Len(n) - 1)) ELSE n

TrimName(n) == TrimNameEnd(TrimNameStart(n))

ResponseIds == 1..(MaxRequests + 1)

ResponseMsgs ==
  {Response(i, "true", FALSE, <<>>, FALSE, <<>>, "d1") : i \in ResponseIds}
  \cup {Response(i, "true", FALSE, <<>>, TRUE, HELLO, "d1") : i \in ResponseIds}
  \cup {Response(i, "absent", FALSE, <<>>, FALSE, <<>>, "d2") : i \in ResponseIds}
  \cup {Response(i, "false", FALSE, <<>>, FALSE, <<>>, "none") : i \in ResponseIds}
  \cup {Response(i, "false", TRUE, <<>>, FALSE, <<>>, "none") : i \in ResponseIds}
  \cup {Response(i, "false", TRUE, <<"e1", "e2">>, FALSE, <<>>, "none") : i \in ResponseIds}
  \cup {Response(i, "null", FALSE, <<>>, FALSE, <<>>, "d2") : i \in ResponseIds}

PushMsgs ==
  {Push(i, ev, "d1") : i \in {AbsentId, NullId},
                       ev \in {HELLO, <<" ", "hello", " ">>, <<"foo">>, <<" ">>}}

Msgs == ResponseMsgs \cup PushMsgs

\* ------------------------------------------------------------ frame text
\* A frame's text is a sequence of tokens.  The token "obj" stands for the
\* members of one JSON object, so that <<"{", obj, "}">> is the text of it;
\* the token "val" stands for the text of a number, a string, a boolean or
\* null, and "[" and "]" enclose the text of an array.
Tok(c) == [ch |-> c, obj |-> NoMsg]
ObjTok(m) == [ch |-> "obj", obj |-> m]
ValTok(v) == [ch |-> "val", obj |-> v]

JsonText(m) == <<Tok("{"), ObjTok(m), Tok("}")>>

TextFrame(s) == [isString |-> TRUE, text |-> s]
BinaryFrame == [isString |-> FALSE, text |-> <<>>]

IsSpace(tok) == tok.ch = " "

RECURSIVE TrimStart(_)
TrimStart(s) ==
  IF s # <<>> /\ IsSpace(Head(s)) THEN TrimStart(Tail(s)) ELSE s

RECURSIVE TrimEnd(_)
TrimEnd(s) ==
  IF s # <<>> /\ IsSpace(s[Len(s)]) THEN TrimEnd(SubSeq(s, 1, Len(s) - 1)) ELSE s

Trim(s) == TrimEnd(TrimStart(s))

\* JSON.parse: the text of one object, with members or empty, of one
\* number, string, boolean or null, or of an array that is empty or holds
\* one such text parses, surrounded by white space or not; anything else
\* throws.
RECURSIVE JsonParses(_)
JsonParses(s) ==
  LET t == Trim(s)
      inner == Trim(SubSeq(t, 2, Len(t) - 1)) IN
    \/ /\ Len(t) >= 2
       /\ t[1].ch = "{"
       /\ t[Len(t)].ch = "}"
       /\ inner = <<>> \/ (Len(inner) = 1 /\ inner[1].ch = "obj")
    \/ /\ Len(t) = 1
       /\ t[1].ch = "val"
    \/ /\ Len(t) >= 2
       /\ t[1].ch = "["
       /\ t[Len(t)].ch = "]"
       /\ inner = <<>> \/ JsonParses(inner)

JsonValue(s) ==
  LET t == Trim(s)
      inner == Trim(SubSeq(t, 2, Len(t) - 1)) IN
    IF t[1].ch = "{" THEN (IF inner = <<>> THEN EmptyObject ELSE inner[1].obj)
    ELSE IF t[1].ch = "val" THEN t[1].obj
    ELSE ArrayValue

IndexOf(s, c) ==
  IF \E i \in 1..Len(s) : s[i].ch = c
  THEN CHOOSE i \in 1..Len(s) : s[i].ch = c /\ \A j \in 1..(i - 1) : s[j].ch # c
  ELSE 0

LastIndexOf(s, c) ==
  IF \E i \in 1..Len(s) : s[i].ch = c
  THEN CHOOSE i \in 1..Len(s) : s[i].ch = c /\ \A j \in (i + 1)..Len(s) : s[j].ch # c
  ELSE 0

\* parseMessage taking the span that ends at the first closing brace
parseMessage_firstClose(raw) ==
  IF ~raw.isString THEN NoMsg
  ELSE LET s == Trim(raw.text) IN
    IF s = <<>> THEN NoMsg
    ELSE IF JsonParses(s) THEN JsonValue(s)
    ELSE LET start == IndexOf(s, "{")
             end == IndexOf(s, "}") IN
      IF start # 0 /\ end # 0 /\ end > start
      THEN LET candidate == SubSeq(s, start, end) IN
             IF JsonParses(candidate) THEN JsonValue(candidate) ELSE NoMsg
      ELSE NoMsg

\* parseMessage(raw): the parsed value, or NoMsg for null.
parseMessage(raw) ==
  IF ~raw.isString THEN NoMsg
  ELSE LET s == Trim(raw.text) IN
    IF s = <<>> THEN NoMsg
    ELSE IF JsonParses(s) THEN JsonValue(s)
    ELSE LET start == IndexOf(s, "{")
             end == LastIndexOf(s, "}") IN
      IF start # 0 /\ end # 0 /\ end > start
      THEN LET candidate == SubSeq(s, start, end) IN
             IF JsonParses(candidate) THEN JsonValue(candidate) ELSE NoMsg
      ELSE NoMsg

\* --------------------------------------------------------------- the state
VARIABLES
  nextId,              \* let nextId = 1
  pending,             \* Map id -> settle; settle is named by its promise
  listeners,           \* Map event -> list of handlers
  ws,                  \* the socket referred to (index into socks), 0 = null
  helloReceived,
  connectCallback,     \* 0 = null
  disconnectCallback,  \* 0 = null
  socks,               \* readyState of every WebSocket created so far
  closeTask,           \* the close task that fired error and not yet close
  timers,              \* setTimeout callbacks not yet run, in firing order
  promises,            \* per request() call: the id it was given
  settled,             \* per request() call: the resolve/reject calls made
  helloSeen,           \* per socket: a hello push arrived on it
  calls,               \* listener invocations made by the last step
  last,                \* the last step: the call or handler and what it did
  parsed,              \* a call of parseMessage by itself: argument and result
  app,                 \* AppContent: its connected state and its requests
  replaced             \* the callbacks a later registration took the place of

vars ==
  <<nextId, pending, listeners, ws, helloReceived, connectCallback,
    disconnectCallback, socks, closeTask, timers, promises, settled,
    helloSeen, calls, last, parsed, app, replaced>>

\* The closure variables of createDeviceSocket.
channelVars ==
  <<nextId, pending, listeners, ws, helloReceived, connectCallback,
    disconnectCallback>>

Callbacks == 1..2
\* The connect callbacks that throw when they are called.
ThrowingCallbacks == {2}
Handlers == 1..2
\* The handlers that throw when they are called.
ThrowingHandlers == {2}
\* The handlers that call off(event, themselves) when they are called.
SelfRemovingHandlers == {3}
EventKeys == {HELLO, <<"foo">>}
ReqEvents == {"get_status"}

UndefinedCode == -1
NoCode == 0
NoTask == [t |-> 0, code |-> NoCode, reason |-> ""]
\* Close events of a connection that ended without failing.
CloseEvents == {[code |-> 1000, reason |-> "bye"]}
\* Close code of a connection that failed (abnormal closure).
AbnormalCode == 1006
AllCloseEvents == CloseEvents \cup {[code |-> AbnormalCode, reason |-> ""]}

Sockets == 1..Len(socks)
Promises == 1..Len(promises)

\* What a step did: op names the call or handler, t the socket whose handler
\* ran, or that disconnect() closed, and owned whether the channel referred
\* to that socket when it ran, cb
\* the connect or disconnect callback it invoked with code and reason,
\* sentOn the socket a frame was sent on and sentId that frame's id, threw
\* whether an exception left the call or handler.
Did(op, t, cb, code, reason, sentOn, sentId) ==
  [op |-> op, t |-> t, owned |-> (t # 0 /\ ws = t), cb |-> cb, code |-> code,
   reason |-> reason, sentOn |-> sentOn, sentId |-> sentId, threw |-> FALSE]

Call(op) == Did(op, 0, 0, NoCode, "", 0, 0)

\* A socket is gone once its close event has been delivered.
FullyClosed(t) == socks[t] = "CLOSED" /\ closeTask.t # t

\* get connected()
connected == ws # 0 /\ socks[ws] = "OPEN" /\ helloReceived

\* new Promise((resolve, reject) => ...): one call of resolve or reject.
Resolved(msg) == [kind |-> "resolve", error |-> <<>>, value |-> msg]
Rejected(err) == [kind |-> "reject", error |-> err, value |-> NoMsg]

ErrRequestFailed == <<"Request failed">>
ErrConnectionClosed == <<"Connection closed">>
ErrRequestTimeout == <<"Request timeout">>

\* Array.prototype.join('; ')
RECURSIVE Join(_)
Join(errs) ==
  IF errs = <<>> THEN <<>>
  ELSE IF Len(errs) = 1 THEN <<errs[1]>>
  ELSE <<errs[1], "; ">> \o Join(Tail(errs))

\* The settle call a matching response makes.
ResponseOutcome(msg) ==
  IF msg.success = "false"
  THEN Rejected(IF msg.hasErrors THEN Join(msg.errors) ELSE ErrRequestFailed)
  ELSE Resolved(msg)

EmptyMap == [x \in {} |-> 0]
\* Map.delete
MapDelete(m, k) == [x \in (DOMAIN m) \ {k} |-> m[x]]
\* Map.set
MapSet(m, k, v) == [x \in (DOMAIN m) \cup {k} |-> IF x = k THEN v ELSE m[x]]

\* AppContent before its effect has registered its callbacks: connected is
\* useState(false), count holds the get_connection_count requests whose
\* promise the connect callback waits for, and polling tells that the
\* interval of tick is set.
NoApp == [mounted |-> FALSE, connected |-> FALSE, count |-> {}, polling |-> FALSE]

\* The channel as createDeviceSocket returns it.
Created ==
  /\ nextId = 1
  /\ pending = EmptyMap
  /\ listeners = [e \in EventKeys |-> <<>>]
  /\ helloReceived = FALSE
  /\ connectCallback = 0
  /\ disconnectCallback = 0
  \* createDeviceSocket ends with connect()
  /\ ws = 1
  /\ socks = <<"CONNECTING">>
  /\ closeTask = NoTask
  /\ timers = <<>>
  /\ promises = <<>>
  /\ settled = <<>>
  /\ helloSeen = <<FALSE>>
  /\ calls = <<>>
  /\ last = [op |-> "create", t |-> 0, owned |-> FALSE, cb |-> 0, code |-> NoCode,
             reason |-> "", sentOn |-> 0, sentId |-> 0, threw |-> FALSE]
  /\ app = NoApp
  /\ replaced = [connect |-> {}, disconnect |-> {}]

\* No call of parseMessage by itself is looked at.
NotParsed ==
  [raw |-> BinaryFrame, prefix |-> <<>>, json |-> NoMsg, suffix |-> <<>>,
   done |-> FALSE, result |-> NoMsg]

Init == Created /\ parsed = NotParsed

\* ------------------------------------------------------------- the API
\* connect() clearing helloReceived before its test of ws
connect_resetsReady(maxSocks) ==
  /\ closeTask = NoTask
  /\ last' = Call("connect")
  /\ helloReceived' = FALSE
  /\ IF ws # 0
     THEN UNCHANGED <<ws, socks, helloSeen>>
     ELSE /\ Len(socks) < maxSocks
          /\ socks' = Append(socks, "CONNECTING")
          /\ helloSeen' = Append(helloSeen, FALSE)
          /\ ws' = Len(socks) + 1
  /\ calls' = <<>>
  /\ UNCHANGED <<parsed, app, replaced, nextId, pending, listeners, connectCallback, disconnectCallback,
                 closeTask, timers, promises, settled>>

\* connect() restarting the id counter with every new socket
connect_resetId(maxSocks) ==
  /\ closeTask = NoTask
  /\ last' = Call("connect")
  /\ IF ws # 0
     THEN UNCHANGED <<ws, helloReceived, socks, helloSeen, nextId>>
     ELSE /\ Len(socks) < maxSocks
          /\ helloReceived' = FALSE
          /\ socks' = Append(socks, "CONNECTING")
          /\ helloSeen' = Append(helloSeen, FALSE)
          /\ ws' = Len(socks) + 1
          /\ nextId' = 1
  /\ calls' = <<>>
  /\ UNCHANGED <<parsed, app, replaced, pending, listeners, connectCallback, disconnectCallback,
                 closeTask, timers, promises, settled>>

\* function connect(); at most maxSocks sockets are created
connect(maxSocks) ==
  /\ closeTask = NoTask
  /\ last' = Call("connect")
  /\ IF ws # 0
     THEN UNCHANGED <<ws, helloReceived, socks, helloSeen>>
     ELSE /\ Len(socks) < maxSocks
          /\ helloReceived' = FALSE
          /\ socks' = Append(socks, "CONNECTING")
          /\ helloSeen' = Append(helloSeen, FALSE)
          /\ ws' = Len(socks) + 1
  /\ calls' = <<>>
  /\ UNCHANGED <<parsed, app, replaced, nextId, pending, listeners, connectCallback, disconnectCallback,
                 closeTask, timers, promises, settled>>

\* WebSocket.close(): starts the closing handshake of a socket not yet closing.
WsClose(state) ==
  IF state \in {"CONNECTING", "OPEN"} THEN "CLOSING" ELSE state

\* disconnect() rejecting the pending requests itself
disconnect_rejects ==
  /\ closeTask = NoTask
  /\ last' = Did("disconnect", ws, 0, NoCode, "", 0, 0)
  /\ IF ws # 0
     THEN /\ socks' = [socks EXCEPT ![ws] = WsClose(socks[ws])]
          /\ ws' = 0
     ELSE UNCHANGED <<socks, ws>>
  /\ helloReceived' = FALSE
  /\ settled' = [p \in DOMAIN settled |->
                   IF \E id \in DOMAIN pending : pending[id] = p
                   THEN Append(settled[p], Rejected(ErrConnectionClosed))
                   ELSE settled[p]]
  /\ pending' = EmptyMap
  /\ calls' = <<>>
  /\ UNCHANGED <<parsed, app, replaced, nextId, listeners, connectCallback,
                 disconnectCallback, closeTask, timers, promises, helloSeen>>

\* socket.disconnect()
disconnect ==
  /\ closeTask = NoTask
  /\ last' = Did("disconnect", ws, 0, NoCode, "", 0, 0)
  /\ IF ws # 0
     THEN /\ socks' = [socks EXCEPT ![ws] = WsClose(socks[ws])]
          /\ ws' = 0
     ELSE UNCHANGED <<socks, ws>>
  /\ helloReceived' = FALSE
  /\ calls' = <<>>
  /\ UNCHANGED <<parsed, app, replaced, nextId, pending, listeners, connectCallback,
                 disconnectCallback, closeTask, timers, promises, settled, helloSeen>>

\* sendMessage sending only when the hello push has arrived
sendMessage_whenReady(obj) ==
  IF ws # 0 /\ socks[ws] = "OPEN" /\ helloReceived THEN ws ELSE 0

\* function sendMessage(obj): the socket the frame is sent on, 0 when dropped
sendMessage(obj) ==
  IF ws # 0 /\ socks[ws] = "OPEN" THEN ws ELSE 0

\* request() that sets no timer
request_notimer(event, maxReqs) ==
  /\ closeTask = NoTask
  /\ Len(promises) < maxReqs
  /\ LET id == nextId
         p == Len(promises) + 1
         sentOn == sendMessage([id |-> id, event |-> event]) IN
       /\ nextId' = nextId + 1
       /\ promises' = Append(promises, id)
       /\ settled' = Append(settled, <<>>)
       /\ pending' = MapSet(pending, id, p)
       /\ last' = Did("request", 0, 0, NoCode, "", sentOn, IF sentOn # 0 THEN id ELSE 0)
  /\ calls' = <<>>
  /\ UNCHANGED <<parsed, app, replaced, listeners, ws, helloReceived, connectCallback,
                 disconnectCallback, socks, closeTask, helloSeen, timers>>

\* socket.request(event, data); at most maxReqs calls are made
request(event, maxReqs) ==
  /\ closeTask = NoTask
  /\ Len(promises) < maxReqs
  /\ LET id == nextId
         p == Len(promises) + 1
         sentOn == sendMessage([id |-> id, event |-> event]) IN
       /\ nextId' = nextId + 1
       /\ promises' = Append(promises, id)
       /\ settled' = Append(settled, <<>>)
       /\ pending' = MapSet(pending, id, p)
       /\ last' = Did("request", 0, 0, NoCode, "", sentOn, IF sentOn # 0 THEN id ELSE 0)
       /\ timers' = Append(timers, [id |-> id, p |-> p])
  /\ calls' = <<>>
  /\ UNCHANGED <<parsed, app, replaced, listeners, ws, helloReceived, connectCallback,
                 disconnectCallback, socks, closeTask, helloSeen>>

\* The timer callback without its pending.has(id) test
timeout_nocheck ==
  /\ closeTask = NoTask
  /\ timers # <<>>
  /\ last' = Call("timeout")
  /\ LET tm == Head(timers) IN
       /\ timers' = Tail(timers)
       /\ pending' = MapDelete(pending, tm.id)
       /\ settled' = [settled EXCEPT ![tm.p] = Append(@, Rejected(ErrRequestTimeout))]
  /\ calls' = <<>>
  /\ UNCHANGED <<parsed, app, replaced, nextId, listeners, ws, helloReceived, connectCallback,
                 disconnectCallback, socks, closeTask, promises, helloSeen>>

\* The timer callback emptying the pending map
timeout_sweeps ==
  /\ closeTask = NoTask
  /\ timers # <<>>
  /\ last' = Call("timeout")
  /\ LET tm == Head(timers) IN
       /\ timers' = Tail(timers)
       /\ IF tm.id \in DOMAIN pending
          THEN /\ pending' = EmptyMap
               /\ settled' = [settled EXCEPT ![tm.p] = Append(@, Rejected(ErrRequestTimeout))]
          ELSE UNCHANGED <<pending, settled>>
  /\ calls' = <<>>
  /\ UNCHANGED <<parsed, app, replaced, nextId, listeners, ws, helloReceived, connectCallback,
                 disconnectCallback, socks, closeTask, promises, helloSeen>>

\* The setTimeout callback of request(); timers of equal delay run in the
\* order they were set.
timeout ==
  /\ closeTask = NoTask
  /\ timers # <<>>
  /\ last' = Call("timeout")
  /\ LET tm == Head(timers) IN
       /\ timers' = Tail(timers)
       /\ IF tm.id \in DOMAIN pending
          THEN /\ pending' = MapDelete(pending, tm.id)
               /\ settled' = [settled EXCEPT ![tm.p] = Append(@, Rejected(ErrRequestTimeout))]
          ELSE UNCHANGED <<pending, settled>>
  /\ calls' = <<>>
  /\ UNCHANGED <<parsed, app, replaced, nextId, listeners, ws, helloReceived, connectCallback,
                 disconnectCallback, socks, closeTask, promises, helloSeen>>

\* listeners.get(event) of on(), after it has set an empty list for an
\* event that had none
ListOf(event) == IF event \in DOMAIN listeners THEN listeners[event] ELSE <<>>

\* socket.on(event, handler); lists grow to at most maxLen handlers
on(event, handler, maxLen) ==
  /\ closeTask = NoTask
  /\ Len(ListOf(event)) < maxLen
  /\ last' = Call("on")
  /\ listeners' = MapSet(listeners, event, Append(ListOf(event), handler))
  /\ calls' = <<>>
  /\ UNCHANGED <<parsed, app, replaced, nextId, pending, ws, helloReceived, connectCallback,
                 disconnectCallback, socks, closeTask, timers, promises, settled,
                 helloSeen>>

\* list.splice(i, 1)
Splice(list, i) == SubSeq(list, 1, i - 1) \o SubSeq(list, i + 1, Len(list))

\* list.indexOf(handler), 0 when absent
ListIndexOf(list, h) ==
  IF \E i \in 1..Len(list) : list[i] = h
  THEN CHOOSE i \in 1..Len(list) : list[i] = h /\ \A j \in 1..(i - 1) : list[j] # h
  ELSE 0

\* list.lastIndexOf(handler), 0 when absent
ListLastIndexOf(list, h) ==
  IF \E i \in 1..Len(list) : list[i] = h
  THEN CHOOSE i \in 1..Len(list) : list[i] = h /\ \A j \in (i + 1)..Len(list) : list[j] # h
  ELSE 0

\* off() removing the latest registration of the handler
off_latest(event, handler) ==
  /\ closeTask = NoTask
  /\ last' = Call("off")
  /\ listeners' =
       IF event \notin DOMAIN listeners THEN listeners
       ELSE IF handler # 0
       THEN LET i == ListLastIndexOf(listeners[event], handler) IN
              IF i # 0 THEN [listeners EXCEPT ![event] = Splice(@, i)] ELSE listeners
       ELSE [listeners EXCEPT ![event] = <<>>]
  /\ calls' = <<>>
  /\ UNCHANGED <<parsed, app, replaced, nextId, pending, ws, helloReceived, connectCallback,
                 disconnectCallback, socks, closeTask, timers, promises, settled,
                 helloSeen>>

\* socket.off(event, handler); handler 0 is the call without a handler
off(event, handler) ==
  /\ closeTask = NoTask
  /\ last' = Call("off")
  /\ listeners' =
       IF event \notin DOMAIN listeners THEN listeners
       ELSE IF handler # 0
       THEN LET i == ListIndexOf(listeners[event], handler) IN
              IF i # 0 THEN [listeners EXCEPT ![event] = Splice(@, i)] ELSE listeners
       ELSE [listeners EXCEPT ![event] = <<>>]
  /\ calls' = <<>>
  /\ UNCHANGED <<parsed, app, replaced, nextId, pending, ws, helloReceived, connectCallback,
                 disconnectCallback, socks, closeTask, timers, promises, settled,
                 helloSeen>>

\* onConnect(cb) keeping the callback registered first
onConnect_first(cb) ==
  /\ closeTask = NoTask
  /\ last' = Call("onConnect")
  /\ connectCallback' = IF connectCallback # 0 THEN connectCallback ELSE cb
  /\ calls' = <<>>
  /\ UNCHANGED <<parsed, app, replaced, nextId, pending, listeners, ws, helloReceived,
                 disconnectCallback, socks, closeTask, timers, promises, settled,
                 helloSeen>>

\* socket.onConnect(cb); cb 0 is null
onConnect(cb) ==
  /\ closeTask = NoTask
  /\ last' = Call("onConnect")
  /\ connectCallback' = cb
  /\ replaced' = [replaced EXCEPT !.connect = (@ \cup ({connectCallback} \ {0})) \ {cb}]
  /\ calls' = <<>>
  /\ UNCHANGED <<parsed, app, nextId, pending, listeners, ws, helloReceived,
                 disconnectCallback, socks, closeTask, timers, promises, settled,
                 helloSeen>>

\* socket.onDisconnect(cb); cb 0 is null
onDisconnect(cb) ==
  /\ closeTask = NoTask
  /\ last' = Call("onDisconnect")
  /\ disconnectCallback' = cb
  /\ replaced' = [replaced EXCEPT !.disconnect = (@ \cup ({disconnectCallback} \ {0})) \ {cb}]
  /\ calls' = <<>>
  /\ UNCHANGED <<parsed, app, nextId, pending, listeners, ws, helloReceived, connectCallback,
                 socks, closeTask, timers, promises, settled, helloSeen>>

\* ------------------------------------------- the handlers of one WebSocket
\* ws.onopen = () => {}
OnOpen(t) ==
  /\ closeTask = NoTask
  /\ socks[t] = "CONNECTING"
  /\ last' = Did("open", t, 0, NoCode, "", 0, 0)
  /\ socks' = [socks EXCEPT ![t] = "OPEN"]
  /\ calls' = <<>>
  /\ UNCHANGED <<parsed, app, replaced, nextId, pending, listeners, ws, helloReceived, connectCallback,
                 disconnectCallback, closeTask, timers, promises, settled,
                 helloSeen>>

\* if (msg): null, 0, the empty string and false are not handled.
Truthy(msg) ==
  \/ msg.kind \in {"object", "array"}
  \/ msg.kind = "number" /\ msg.lit # "0"
  \/ msg.kind = "string" /\ msg.lit # ""
  \/ msg.kind = "boolean" /\ msg.lit # "false"

\* 'id' in msg throws a TypeError when msg is not an object.
InThrows(msg) == msg.kind \in {"number", "string", "boolean"}

\* The closing handshake of an open socket starts at the server's request:
\* readyState becomes CLOSING and no handler of the channel runs.
WsClosing(t) ==
  /\ closeTask = NoTask
  /\ socks[t] = "OPEN"
  /\ last' = Did("closing", t, 0, NoCode, "", 0, 0)
  /\ socks' = [socks EXCEPT ![t] = "CLOSING"]
  /\ calls' = <<>>
  /\ UNCHANGED <<parsed, app, replaced, nextId, pending, listeners, ws, helloReceived,
                 connectCallback, disconnectCallback, closeTask, timers, promises,
                 settled, helloSeen>>

\* The tests handleMessage makes on a message.
HasId(msg) == msg.id # AbsentId /\ msg.id # NullId
Matches(msg) == HasId(msg) /\ msg.id \in DOMAIN pending
EventOf(msg) == IF msg.hasEvent THEN TrimName(msg.event) ELSE <<>>
IsPush(msg) ==
  /\ ~Matches(msg)
  /\ ~(HasId(msg) /\ ~msg.hasEvent)
  /\ EventOf(msg) # <<>>
IsHello(msg) == IsPush(msg) /\ EventOf(msg) = HELLO

\* fn(msg.data, msg): one invocation of a handler, and whether it threw.
Invocation(fn, msg) ==
  [fn |-> fn, data |-> msg.data, msg |-> msg, threw |-> fn \in ThrowingHandlers]

\* list.forEach((fn) => { try { fn(msg.data, msg) } catch (e) { ... } })
Dispatch(list, msg) == [i \in 1..Len(list) |-> Invocation(list[i], msg)]

\* Array.prototype.forEach from index k on, over the array itself: it visits
\* the indexes up to the length len the array had when it began and skips
\* those the array no longer has, and a handler that calls off() on itself
\* splices the array meanwhile.  The result is the invocations made and the
\* array left.
RECURSIVE ForEach(_, _, _, _, _)
ForEach(list, k, len, msg, cs) ==
  IF k > len THEN [calls |-> cs, list |-> list]
  ELSE IF k > Len(list) THEN ForEach(list, k + 1, len, msg, cs)
  ELSE LET fn == list[k]
           after == IF fn \in SelfRemovingHandlers
                    THEN Splice(list, ListIndexOf(list, fn))
                    ELSE list IN
         ForEach(after, k + 1, len, msg, Append(cs, Invocation(fn, msg)))

\* The push dispatch of handleMessage: list.forEach over listeners.get(event).
DispatchLive(list, msg) == ForEach(list, 1, Len(list), msg, <<>>)

\* The least id of a non-empty pending map
OldestPending == CHOOSE i \in DOMAIN pending : \A j \in DOMAIN pending : i <= j

\* handleMessage matching a response to the oldest pending request
handleMessage_fifo(msg, t) ==
  /\ IF Matches(msg)
     THEN /\ pending' = MapDelete(pending, OldestPending)
          /\ settled' = [settled EXCEPT ![pending[OldestPending]] = Append(@, ResponseOutcome(msg))]
     ELSE UNCHANGED <<pending, settled>>
  /\ IF IsHello(msg)
     THEN /\ helloReceived' = TRUE
          /\ helloSeen' = [helloSeen EXCEPT ![t] = TRUE]
          /\ last' = Did("message", t, connectCallback, NoCode, "", 0, 0)
     ELSE /\ UNCHANGED <<helloReceived, helloSeen>>
          /\ last' = Did("message", t, 0, NoCode, "", 0, 0)
  /\ calls' = IF IsPush(msg) /\ EventOf(msg) \in DOMAIN listeners
              THEN Dispatch(listeners[EventOf(msg)], msg)
              ELSE <<>>
  /\ UNCHANGED listeners

\* The invocations up to the first one that throws
UpToThrow(cs) ==
  LET thrown == {i \in 1..Len(cs) : cs[i].threw} IN
    IF thrown = {} THEN cs
    ELSE SubSeq(cs, 1, CHOOSE i \in thrown : \A j \in thrown : i <= j)

\* handleMessage calling the handlers without try and catch
handleMessage_nocatch(msg, t) ==
  /\ IF Matches(msg)
     THEN /\ pending' = MapDelete(pending, msg.id)
          /\ settled' = [settled EXCEPT ![pending[msg.id]] = Append(@, ResponseOutcome(msg))]
     ELSE UNCHANGED <<pending, settled>>
  /\ calls' = IF IsPush(msg) /\ EventOf(msg) \in DOMAIN listeners
              THEN UpToThrow(Dispatch(listeners[EventOf(msg)], msg))
              ELSE <<>>
  /\ LET escaped == \E i \in 1..Len(calls') : calls'[i].threw IN
     IF IsHello(msg)
     THEN /\ helloReceived' = TRUE
          /\ helloSeen' = [helloSeen EXCEPT ![t] = TRUE]
          /\ last' = [Did("message", t, connectCallback, NoCode, "", 0, 0)
                        EXCEPT !.threw = escaped]
     ELSE /\ UNCHANGED <<helloReceived, helloSeen>>
          /\ last' = [Did("message", t, 0, NoCode, "", 0, 0) EXCEPT !.threw = escaped]
  /\ UNCHANGED listeners

\* handleMessage going on to the push dispatch after it settled a request
handleMessage_noreturn(msg, t) ==
  LET push == EventOf(msg) # <<>> /\ (Matches(msg) \/ IsPush(msg))
      hello == push /\ EventOf(msg) = HELLO IN
  /\ IF Matches(msg)
     THEN /\ pending' = MapDelete(pending, msg.id)
          /\ settled' = [settled EXCEPT ![pending[msg.id]] = Append(@, ResponseOutcome(msg))]
     ELSE UNCHANGED <<pending, settled>>
  /\ IF hello
     THEN /\ helloReceived' = TRUE
          /\ helloSeen' = [helloSeen EXCEPT ![t] = TRUE]
          /\ last' = Did("message", t, connectCallback, NoCode, "", 0, 0)
     ELSE /\ UNCHANGED <<helloReceived, helloSeen>>
          /\ last' = Did("message", t, 0, NoCode, "", 0, 0)
  /\ calls' = IF push /\ EventOf(msg) \in DOMAIN listeners
              THEN Dispatch(listeners[EventOf(msg)], msg)
              ELSE <<>>
  /\ UNCHANGED listeners

\* handleMessage dropping every message that has an id and matches nothing
handleMessage_dropsIds(msg, t) ==
  LET push == IsPush(msg) /\ ~HasId(msg)
      hello == push /\ EventOf(msg) = HELLO IN
  /\ IF Matches(msg)
     THEN /\ pending' = MapDelete(pending, msg.id)
          /\ settled' = [settled EXCEPT ![pending[msg.id]] = Append(@, ResponseOutcome(msg))]
     ELSE UNCHANGED <<pending, settled>>
  /\ IF hello
     THEN /\ helloReceived' = TRUE
          /\ helloSeen' = [helloSeen EXCEPT ![t] = TRUE]
          /\ last' = Did("message", t, connectCallback, NoCode, "", 0, 0)
     ELSE /\ UNCHANGED <<helloReceived, helloSeen>>
          /\ last' = Did("message", t, 0, NoCode, "", 0, 0)
  /\ calls' = IF push /\ EventOf(msg) \in DOMAIN listeners
              THEN Dispatch(listeners[EventOf(msg)], msg)
              ELSE <<>>
  /\ UNCHANGED listeners

\* if (connectCallback) connectCallback(), outside any try: what the callback
\* throws ends handleMessage before the handlers of hello are looked up.
CallbackThrows(msg) == IsHello(msg) /\ connectCallback \in ThrowingCallbacks

\* function handleMessage(msg), run for a message event of socket t
handleMessage(msg, t) ==
  IF InThrows(msg)
  THEN /\ UNCHANGED <<pending, settled, helloReceived, helloSeen, listeners>>
       /\ last' = [Did("message", t, 0, NoCode, "", 0, 0) EXCEPT !.threw = TRUE]
       /\ calls' = <<>>
  ELSE
  /\ IF Matches(msg)
     THEN /\ pending' = MapDelete(pending, msg.id)
          /\ settled' = [settled EXCEPT ![pending[msg.id]] = Append(@, ResponseOutcome(msg))]
     ELSE UNCHANGED <<pending, settled>>
  /\ IF IsHello(msg)
     THEN /\ helloReceived' = TRUE
          /\ helloSeen' = [helloSeen EXCEPT ![t] = TRUE]
          /\ last' = [Did("message", t, connectCallback, NoCode, "", 0, 0)
                        EXCEPT !.threw = CallbackThrows(msg)]
     ELSE /\ UNCHANGED <<helloReceived, helloSeen>>
          /\ last' = Did("message", t, 0, NoCode, "", 0, 0)
  /\ IF IsPush(msg) /\ EventOf(msg) \in DOMAIN listeners /\ ~CallbackThrows(msg)
     THEN LET done == DispatchLive(listeners[EventOf(msg)], msg) IN
            /\ calls' = done.calls
            /\ listeners' = [listeners EXCEPT ![EventOf(msg)] = done.list]
     ELSE /\ calls' = <<>>
          /\ UNCHANGED listeners

\* ws.onmessage = (ev) => ...
OnMessage(t, raw) ==
  /\ closeTask = NoTask
  /\ socks[t] = "OPEN"
  /\ LET msg == parseMessage(raw) IN
       IF Truthy(msg)
       THEN handleMessage(msg, t)
       ELSE /\ UNCHANGED <<pending, settled, helloReceived, helloSeen, listeners>>
            /\ last' = Did("message", t, 0, NoCode, "", 0, 0)
            /\ calls' = <<>>
  /\ UNCHANGED <<parsed, app, replaced, nextId, ws, connectCallback, disconnectCallback,
                 socks, closeTask, timers, promises>>

\* onerror doing what onclose does
OnError_cleanup(t) ==
  /\ closeTask = NoTask
  /\ socks[t] # "CLOSED"
  /\ socks' = [socks EXCEPT ![t] = "CLOSED"]
  /\ closeTask' = [t |-> t, code |-> AbnormalCode, reason |-> ""]
  /\ ws' = 0
  /\ helloReceived' = FALSE
  /\ settled' = [p \in DOMAIN settled |->
                   IF \E id \in DOMAIN pending : pending[id] = p
                   THEN Append(settled[p], Rejected(ErrConnectionClosed))
                   ELSE settled[p]]
  /\ pending' = EmptyMap
  /\ last' = IF disconnectCallback # 0
             THEN Did("error", t, disconnectCallback, UndefinedCode, "", 0, 0)
             ELSE Did("error", t, 0, NoCode, "", 0, 0)
  /\ calls' = <<>>
  /\ UNCHANGED <<parsed, app, replaced, nextId, listeners, connectCallback, disconnectCallback, timers,
                 promises, helloSeen>>

\* ws.onerror = () => ...  The task that ends a failed connection sets the
\* socket CLOSED and fires error; its close event follows in the same task.
OnError(t) ==
  /\ closeTask = NoTask
  /\ socks[t] # "CLOSED"
  /\ socks' = [socks EXCEPT ![t] = "CLOSED"]
  /\ closeTask' = [t |-> t, code |-> AbnormalCode, reason |-> ""]
  /\ last' = IF disconnectCallback # 0
             THEN Did("error", t, disconnectCallback, UndefinedCode, "", 0, 0)
             ELSE Did("error", t, 0, NoCode, "", 0, 0)
  /\ calls' = <<>>
  /\ UNCHANGED <<parsed, app, replaced, nextId, pending, listeners, ws, helloReceived, connectCallback,
                 disconnectCallback, timers, promises, settled, helloSeen>>

\* onclose that clears the pending map without rejecting its entries
OnClose_noreject(t, ev) ==
  /\ \/ closeTask = NoTask /\ socks[t] # "CLOSED" /\ ev \in CloseEvents
     \/ closeTask = [t |-> t, code |-> ev.code, reason |-> ev.reason]
  /\ socks' = [socks EXCEPT ![t] = "CLOSED"]
  /\ closeTask' = NoTask
  /\ ws' = 0
  /\ helloReceived' = FALSE
  /\ pending' = EmptyMap
  /\ last' = IF disconnectCallback # 0
             THEN Did("close", t, disconnectCallback, ev.code, ev.reason, 0, 0)
             ELSE Did("close", t, 0, NoCode, "", 0, 0)
  /\ calls' = <<>>
  /\ UNCHANGED <<parsed, app, replaced, nextId, listeners, connectCallback, disconnectCallback, timers,
                 promises, helloSeen, settled>>

\* onclose that drops the handlers with the socket
OnClose_dropsListeners(t, ev) ==
  /\ \/ closeTask = NoTask /\ socks[t] # "CLOSED" /\ ev \in CloseEvents
     \/ closeTask = [t |-> t, code |-> ev.code, reason |-> ev.reason]
  /\ socks' = [socks EXCEPT ![t] = "CLOSED"]
  /\ closeTask' = NoTask
  /\ ws' = 0
  /\ helloReceived' = FALSE
  /\ settled' = [p \in DOMAIN settled |->
                   IF \E id \in DOMAIN pending : pending[id] = p
                   THEN Append(settled[p], Rejected(ErrConnectionClosed))
                   ELSE settled[p]]
  /\ pending' = EmptyMap
  /\ listeners' = [e \in DOMAIN listeners |-> <<>>]
  /\ last' = IF disconnectCallback # 0
             THEN Did("close", t, disconnectCallback, ev.code, ev.reason, 0, 0)
             ELSE Did("close", t, 0, NoCode, "", 0, 0)
  /\ calls' = <<>>
  /\ UNCHANGED <<parsed, app, replaced, nextId, connectCallback, disconnectCallback,
                 timers, promises, helloSeen>>

\* ws.onclose = (ev) => ...
OnClose(t, ev) ==
  /\ \/ closeTask = NoTask /\ socks[t] # "CLOSED" /\ ev \in CloseEvents
     \/ closeTask = [t |-> t, code |-> ev.code, reason |-> ev.reason]
  /\ socks' = [socks EXCEPT ![t] = "CLOSED"]
  /\ closeTask' = NoTask
  /\ ws' = 0
  /\ helloReceived' = FALSE
  /\ settled' = [p \in DOMAIN settled |->
                   IF \E id \in DOMAIN pending : pending[id] = p
                   THEN Append(settled[p], Rejected(ErrConnectionClosed))
                   ELSE settled[p]]
  /\ pending' = EmptyMap
  /\ last' = IF disconnectCallback # 0
             THEN Did("close", t, disconnectCallback, ev.code, ev.reason, 0, 0)
             ELSE Did("close", t, 0, NoCode, "", 0, 0)
  /\ calls' = <<>>
  /\ UNCHANGED <<parsed, app, replaced, nextId, listeners, connectCallback, disconnectCallback, timers,
                 promises, helloSeen>>

\* ---------------------------------------------------------- AppContent
\* The callbacks onConnect and onDisconnect of AppContent's effect.
AppCallback == 1

\* The data of a get_connection_count response: a count up to
\* FRONTEND_CONNECTION_LIMIT and a count above it.
CountFew == "count:1"
CountMany == "count:16"

\* requestConnectionCountWithCallback: the count the callback is given for
\* a response the promise resolved with.
CountOf(msg) ==
  IF msg.success = "true" /\ msg.data \in {CountFew, CountMany} THEN msg.data ELSE "null"

\* The requests finishConnectionSetup makes: kiosk name, panel info and
\* terminals, and those of tick.
TickRequests(status) == IF status THEN 3 ELSE 2
FinishRequests(status) == 3 + TickRequests(status)

\* n calls of socket.request(), made by one handler after it changed the
\* pending map, the settle calls and the timers to pend, sett and tms.
MakeRequests(pend, sett, tms, n) ==
  /\ nextId' = nextId + n
  /\ promises' = promises \o [i \in 1..n |-> nextId + i - 1]
  /\ settled' = sett \o [i \in 1..n |-> <<>>]
  /\ pending' = [id \in DOMAIN pend \cup (nextId..(nextId + n - 1)) |->
                   IF id >= nextId THEN Len(promises) + (id - nextId) + 1 ELSE pend[id]]
  /\ timers' = tms \o [i \in 1..n |-> [id |-> nextId + i - 1, p |-> Len(promises) + i]]

\* At most AppRequests calls of request() are made; RoomFor(n) keeps room
\* for the requests that the connect callbacks that wait will make.
AppRequests == 9

RoomFor(n) == Len(promises) + n + 6 * Cardinality(app.count) <= AppRequests

\* What a step of AppContent did; sentOn and sentId are those of the first
\* of the n requests it made.
AppDid(op, t, cb, code, n) ==
  Did(op, t, cb, code, "", IF n > 0 THEN sendMessage(nextId) ELSE 0,
      IF n > 0 /\ sendMessage(nextId) # 0 THEN nextId ELSE 0)

\* The effect of AppContent that registers its callbacks (App.jsx:428-481).
AppMount ==
  /\ closeTask = NoTask
  /\ ~app.mounted
  /\ connectCallback' = AppCallback
  /\ disconnectCallback' = AppCallback
  /\ LET n == IF connected THEN 1 ELSE 0 IN
       /\ RoomFor(7 * n)
       /\ MakeRequests(pending, settled, timers, n)
       /\ app' = [app EXCEPT !.mounted = TRUE,
                             !.count = IF n = 1 THEN @ \cup {Len(promises) + 1} ELSE @]
       /\ last' = AppDid("mount", 0, 0, NoCode, n)
  /\ calls' = <<>>
  /\ UNCHANGED <<parsed, replaced, listeners, ws, helloReceived, socks, closeTask,
                 helloSeen>>

\* ws.onmessage with the callbacks of AppContent and the reactions of its
\* promises, which run when the handler has returned.  status tells
\* whether the status page is shown.
AppOnMessage(t, raw, status) ==
  /\ closeTask = NoTask
  /\ socks[t] = "OPEN"
  /\ calls' = <<>>
  /\ LET msg == parseMessage(raw) IN
     IF ~Truthy(msg) \/ InThrows(msg)
     THEN /\ last' = [Did("message", t, 0, NoCode, "", 0, 0) EXCEPT !.threw = Truthy(msg)]
          /\ UNCHANGED <<nextId, pending, promises, settled, timers, app, ws, socks,
                         helloReceived, helloSeen>>
     ELSE IF Matches(msg)
     THEN LET p == pending[msg.id]
              o == ResponseOutcome(msg)
              many == p \in app.count /\ o.kind = "resolve" /\ CountOf(msg) = CountMany
              finish == p \in app.count /\ ~many
              n == IF finish THEN FinishRequests(status) ELSE 0 IN
            /\ MakeRequests(MapDelete(pending, msg.id),
                            [settled EXCEPT ![p] = Append(@, o)], timers, n)
            /\ app' = [app EXCEPT !.count = @ \ {p},
                                  !.connected = IF finish THEN TRUE ELSE @,
                                  !.polling = IF finish THEN TRUE ELSE @]
            \* socket.disconnect() of the connect callback
            /\ IF many /\ ws # 0
               THEN /\ socks' = [socks EXCEPT ![ws] = WsClose(socks[ws])]
                    /\ ws' = 0
               ELSE UNCHANGED <<socks, ws>>
            /\ helloReceived' = IF many THEN FALSE ELSE helloReceived
            /\ last' = AppDid("message", t, 0, NoCode, n)
            /\ UNCHANGED helloSeen
     ELSE IF IsHello(msg)
     THEN LET n == IF connectCallback = AppCallback THEN 1 ELSE 0 IN
            /\ RoomFor(7 * n)
            /\ helloReceived' = TRUE
            /\ helloSeen' = [helloSeen EXCEPT ![t] = TRUE]
            /\ MakeRequests(pending, settled, timers, n)
            /\ app' = [app EXCEPT !.count = IF n = 1 THEN @ \cup {Len(promises) + 1} ELSE @]
            /\ last' = AppDid("message", t, connectCallback, NoCode, n)
            /\ UNCHANGED <<ws, socks>>
     ELSE /\ last' = Did("message", t, 0, NoCode, "", 0, 0)
          /\ UNCHANGED <<nextId, pending, promises, settled, timers, app, ws, socks,
                         helloReceived, helloSeen>>
  /\ UNCHANGED <<parsed, replaced, listeners, connectCallback, disconnectCallback,
                 closeTask>>

\* The setTimeout callback of request() with the reaction of the promise
\* it rejects.
AppTimeout(status) ==
  /\ closeTask = NoTask
  /\ timers # <<>>
  /\ LET tm == Head(timers)
         hit == tm.id \in DOMAIN pending
         finish == hit /\ tm.p \in app.count
         n == IF finish THEN FinishRequests(status) ELSE 0 IN
       /\ MakeRequests(IF hit THEN MapDelete(pending, tm.id) ELSE pending,
                       IF hit
                       THEN [settled EXCEPT ![tm.p] = Append(@, Rejected(ErrRequestTimeout))]
                       ELSE settled,
                       Tail(timers), n)
       /\ app' = [app EXCEPT !.count = @ \ {tm.p},
                             !.connected = IF finish THEN TRUE ELSE @,
                             !.polling = IF finish THEN TRUE ELSE @]
       /\ last' = AppDid("timeout", 0, 0, NoCode, n)
  /\ calls' = <<>>
  /\ UNCHANGED <<parsed, replaced, listeners, ws, helloReceived, connectCallback,
                 disconnectCallback, socks, closeTask, helloSeen>>

\* ws.onerror with the disconnect callback of AppContent.
AppOnError(t) ==
  /\ closeTask = NoTask
  /\ socks[t] # "CLOSED"
  /\ socks' = [socks EXCEPT ![t] = "CLOSED"]
  /\ closeTask' = [t |-> t, code |-> AbnormalCode, reason |-> ""]
  /\ last' = IF disconnectCallback # 0
             THEN Did("error", t, disconnectCallback, UndefinedCode, "", 0, 0)
             ELSE Did("error", t, 0, NoCode, "", 0, 0)
  /\ app' = IF disconnectCallback = AppCallback
            THEN [app EXCEPT !.connected = FALSE, !.polling = FALSE]
            ELSE app
  /\ calls' = <<>>
  /\ UNCHANGED <<parsed, replaced, nextId, pending, listeners, ws, helloReceived,
                 connectCallback, disconnectCallback, timers, promises, settled,
                 helloSeen>>

\* ws.onclose with the disconnect callback of AppContent, and then the
\* reactions of the promises it rejected: the catch of every
\* get_connection_count request calls back with null.
AppOnClose(t, ev, status) ==
  /\ \/ closeTask = NoTask /\ socks[t] # "CLOSED" /\ ev \in CloseEvents
     \/ closeTask = [t |-> t, code |-> ev.code, reason |-> ev.reason]
  /\ socks' = [socks EXCEPT ![t] = "CLOSED"]
  /\ closeTask' = NoTask
  /\ ws' = 0
  /\ helloReceived' = FALSE
  /\ LET rejected == {pending[id] : id \in DOMAIN pending}
         k == Cardinality(rejected \cap app.count)
         n == k * FinishRequests(status) IN
       /\ MakeRequests(EmptyMap,
                       [p \in DOMAIN settled |->
                          IF p \in rejected
                          THEN Append(settled[p], Rejected(ErrConnectionClosed))
                          ELSE settled[p]],
                       timers, n)
       /\ app' = [app EXCEPT
                    !.count = @ \ rejected,
                    !.connected = IF k > 0 THEN TRUE
                                  ELSE IF disconnectCallback = AppCallback THEN FALSE
                                  ELSE @,
                    !.polling = IF k > 0 THEN TRUE
                                ELSE IF disconnectCallback = AppCallback THEN FALSE
                                ELSE @]
  /\ last' = IF disconnectCallback # 0
             THEN Did("close", t, disconnectCallback, ev.code, ev.reason, 0, 0)
             ELSE Did("close", t, 0, NoCode, "", 0, 0)
  /\ calls' = <<>>
  /\ UNCHANGED <<parsed, replaced, listeners, connectCallback, disconnectCallback,
                 helloSeen>>

\* tick, run by the interval that finishConnectionSetup set.
AppTick(status) ==
  /\ closeTask = NoTask
  /\ app.polling
  /\ RoomFor(TickRequests(status))
  /\ MakeRequests(pending, settled, timers, TickRequests(status))
  /\ last' = AppDid("tick", 0, 0, NoCode, TickRequests(status))
  /\ calls' = <<>>
  /\ UNCHANGED <<parsed, app, replaced, listeners, ws, helloReceived, connectCallback,
                 disconnectCallback, socks, closeTask, helloSeen>>

\* The inactivity timer, set while AppContent's connected is true: it calls
\* socket.disconnect().
AppInactivity == app.connected /\ disconnect

\* ------------------------------------------------------ the specifications
\* The frames of the request/response and handshake traffic: a success and
\* a failure response for every id, two pushes and an unparseable text.
CoreMsgs ==
  {Response(i, "true", FALSE, <<>>, FALSE, <<>>, "d1") : i \in ResponseIds}
  \cup {Response(i, "false", FALSE, <<>>, FALSE, <<>>, "none") : i \in ResponseIds}
  \cup {Push(AbsentId, HELLO, "d1"), Push(AbsentId, <<"foo">>, "d1")}

CoreFrames ==
  {TextFrame(JsonText(m)) : m \in CoreMsgs} \cup {TextFrame(<<Tok("x")>>)}

\* Requests and their settlement over the socket made by createDeviceSocket.
ReqSockets == 1

Next ==
  \/ connect(ReqSockets)
  \/ disconnect
  \/ \E e \in ReqEvents : request(e, MaxRequests)
  \/ timeout
  \/ onDisconnect(1)
  \/ \E t \in Sockets : OnOpen(t)
  \/ \E t \in Sockets, raw \in CoreFrames : OnMessage(t, raw)
  \/ \E t \in Sockets : OnError(t)
  \/ \E t \in Sockets, ev \in AllCloseEvents : OnClose(t, ev)

Spec == Init /\ [][Next]_vars

\* A timer set by setTimeout runs, and the close event of a failed connection
\* follows its error event in the same task.
CloseAfterError == \E t \in Sockets, ev \in AllCloseEvents : closeTask.t = t /\ OnClose(t, ev)

SpecLive == Spec /\ WF_vars(timeout) /\ WF_vars(CloseAfterError)

\* Requests made before and after reconnecting.
IdRequests == 2
IdSockets == 2

NextIds ==
  \/ connect(IdSockets)
  \/ disconnect
  \/ \E e \in ReqEvents : request(e, IdRequests)
  \/ timeout
  \/ \E t \in Sockets : OnOpen(t)
  \/ \E t \in Sockets, raw \in CoreFrames : OnMessage(t, raw)
  \/ \E t \in Sockets : OnError(t)
  \/ \E t \in Sockets, ev \in AllCloseEvents : OnClose(t, ev)

SpecIds == Init /\ [][NextIds]_vars

\* The whole API over the socket made by createDeviceSocket, with one
\* request and one listener.
ApiRequests == 1
ApiSockets == 1

NextApi ==
  \/ connect(ApiSockets)
  \/ disconnect
  \/ \E e \in ReqEvents : request(e, ApiRequests)
  \/ timeout
  \/ on(HELLO, 1, MaxListeners)
  \/ off(HELLO, 1)
  \/ onConnect(1)
  \/ onDisconnect(1)
  \/ \E t \in Sockets : OnOpen(t)
  \/ \E t \in Sockets, raw \in CoreFrames : OnMessage(t, raw)
  \/ \E t \in Sockets : OnError(t)
  \/ \E t \in Sockets, ev \in AllCloseEvents : OnClose(t, ev)

SpecApi == Init /\ [][NextApi]_vars

\* The connection life cycle over several sockets.
NextConn ==
  \/ connect(MaxSockets)
  \/ disconnect
  \/ onConnect(1)
  \/ \E t \in Sockets : OnOpen(t)
  \/ \E t \in Sockets, raw \in CoreFrames : OnMessage(t, raw)
  \/ \E t \in Sockets : OnError(t)
  \/ \E t \in Sockets, ev \in AllCloseEvents : OnClose(t, ev)

SpecConn == Init /\ [][NextConn]_vars

\* Responses with and without an event, for ids that are pending, settled
\* or were never given, over one socket that the server may close.
MsgRequests == 1
MsgListeners == 1

MsgIds == 1..(MsgRequests + 1)

ReplyMsgs ==
  {Response(i, "true", FALSE, <<>>, FALSE, <<>>, "d1") : i \in MsgIds}
  \cup {Response(i, "true", FALSE, <<>>, TRUE, HELLO, "d1") : i \in MsgIds}
  \cup {Push(AbsentId, HELLO, "d1")}

ReplyFrames ==
  {TextFrame(JsonText(m)) : m \in ReplyMsgs} \cup {TextFrame(<<Tok("x")>>)}

NextMsg ==
  \/ \E e \in ReqEvents : request(e, MsgRequests)
  \/ timeout
  \/ on(HELLO, 1, MsgListeners)
  \/ onConnect(1)
  \/ disconnect
  \/ \E t \in Sockets : OnOpen(t)
  \/ \E t \in Sockets : WsClosing(t)
  \/ \E t \in Sockets, raw \in ReplyFrames : OnMessage(t, raw)
  \/ \E t \in Sockets, ev \in AllCloseEvents : OnClose(t, ev)

SpecMsg == Init /\ [][NextMsg]_vars

\* Frames of every shape over one open socket: responses with and without
\* event, success and errors members, pushes with and without id, and frames
\* that are not the text of a JSON object.
MalformedFrames ==
  {BinaryFrame, TextFrame(<<>>), TextFrame(<<Tok(" ")>>), TextFrame(<<Tok("x")>>),
   TextFrame(<<Tok("{"), Tok("x"), Tok("}")>>), TextFrame(<<Tok("["), Tok("]")>>)}
  \cup {TextFrame(<<ValTok(v)>>) :
          v \in {NoMsg, Scalar("number", "0"), Scalar("number", "1"),
                 Scalar("string", ""), Scalar("string", "a"),
                 Scalar("boolean", "false"), Scalar("boolean", "true")}}

MsgFrames == {TextFrame(JsonText(m)) : m \in Msgs} \cup MalformedFrames

NextShapes ==
  \/ \E e \in ReqEvents : request(e, MsgRequests)
  \/ on(HELLO, 1, MsgListeners)
  \/ \E t \in Sockets : OnOpen(t)
  \/ \E t \in Sockets, raw \in MsgFrames : OnMessage(t, raw)

SpecShapes == Init /\ [][NextShapes]_vars

\* parseMessage by itself, called once with a text made of garbage, or of
\* the text of an object between a garbage prefix and a garbage suffix that
\* have MaxGarbage tokens or less together.
MaxGarbage == 3

GarbageToks == {Tok(c) : c \in {"x", " ", "{", "}", "[", "]"}}

\* The sequences over S of length n or less.
SeqsUpTo(S, n) == UNION {[1..k -> S] : k \in 0..n}

Garbage == SeqsUpTo(GarbageToks, MaxGarbage)

\* Garbage that may hold the text of a number and of null as well.
GarbageOnly ==
  SeqsUpTo(GarbageToks \cup {ValTok(Scalar("number", "1")), ValTok(NoMsg)}, MaxGarbage)

ParseObjects == {Push(AbsentId, HELLO, "d1")}

ParseInput(prefix, json, suffix) ==
  [raw |-> TextFrame(prefix \o (IF json = NoMsg THEN <<>> ELSE JsonText(json)) \o suffix),
   prefix |-> prefix, json |-> json, suffix |-> suffix,
   done |-> FALSE, result |-> NoMsg]

\* Garbage with the place where the text of the object goes.
GarbageSplits == {sp \in Garbage \X (0..MaxGarbage) : sp[2] <= Len(sp[1])}

ParseInputs ==
  {ParseInput(SubSeq(sp[1], 1, sp[2]), j, SubSeq(sp[1], sp[2] + 1, Len(sp[1]))) :
     sp \in GarbageSplits, j \in ParseObjects}
  \cup {ParseInput(g, NoMsg, <<>>) : g \in GarbageOnly}
  \cup {[ParseInput(<<>>, NoMsg, <<>>) EXCEPT !.raw = BinaryFrame]}

InitParse == Created /\ parsed \in ParseInputs

\* const msg = parseMessage(raw)
ParseStep ==
  /\ ~parsed.done
  /\ parsed' = [parsed EXCEPT !.done = TRUE, !.result = parseMessage(parsed.raw)]
  /\ UNCHANGED <<nextId, pending, listeners, ws, helloReceived, connectCallback,
                 disconnectCallback, socks, closeTask, timers, promises, settled,
                 helloSeen, calls, last, app, replaced>>

SpecParse == InitParse /\ [][ParseStep]_vars

\* Registrations of connect and disconnect callbacks, one after the other
\* and null included, over sockets that deliver hello pushes, fail and close.
SlotSockets == 1

SlotCallbacks == Callbacks \cup {0}

SlotFrames ==
  {TextFrame(JsonText(Push(AbsentId, ev, "d1"))) : ev \in {HELLO, <<"foo">>}}

NextSlots ==
  \/ \E cb \in SlotCallbacks : onConnect(cb)
  \/ \E cb \in SlotCallbacks : onDisconnect(cb)
  \/ connect(SlotSockets)
  \/ disconnect
  \/ \E t \in Sockets : OnOpen(t)
  \/ \E t \in Sockets, raw \in SlotFrames : OnMessage(t, raw)
  \/ \E t \in Sockets : OnError(t)
  \/ \E t \in Sockets, ev \in AllCloseEvents : OnClose(t, ev)

SpecSlots == Init /\ [][NextSlots]_vars

\* AppContent over the socket made by createDeviceSocket: the hello push,
\* and the responses that the get_connection_count request and the request
\* made after it can get.
AppIds == 1..2

AppMsgs ==
  {Response(i, "true", FALSE, <<>>, FALSE, <<>>, d) :
     i \in AppIds, d \in {CountFew, CountMany, "d1"}}
  \cup {Response(i, "false", FALSE, <<>>, FALSE, <<>>, "none") : i \in AppIds}
  \cup {Push(AbsentId, HELLO, "d1")}

AppFrames == {TextFrame(JsonText(m)) : m \in AppMsgs}

NextApp ==
  \/ AppMount
  \/ AppInactivity
  \/ \E status \in BOOLEAN : AppTick(status)
  \/ \E status \in BOOLEAN : AppTimeout(status)
  \/ \E t \in Sockets : OnOpen(t)
  \/ \E t \in Sockets, raw \in AppFrames, status \in BOOLEAN : AppOnMessage(t, raw, status)
  \/ \E t \in Sockets : AppOnError(t)
  \/ \E t \in Sockets, ev \in AllCloseEvents, status \in BOOLEAN : AppOnClose(t, ev, status)

SpecApp == Init /\ [][NextApp]_vars

\* Push dispatch to lists of handlers some of which take themselves off the
\* list when they are called.
OnceListeners == 3

OnceHandlers == Handlers \cup SelfRemovingHandlers

OnceFrames == {TextFrame(JsonText(Push(AbsentId, <<"foo">>, "d1")))}

NextOnce ==
  \/ \E h \in OnceHandlers : on(<<"foo">>, h, OnceListeners)
  \/ \E h \in OnceHandlers : off(<<"foo">>, h)
  \/ \E t \in Sockets : OnOpen(t)
  \/ \E t \in Sockets, raw \in OnceFrames : OnMessage(t, raw)

SpecOnce == Init /\ [][NextOnce]_vars

\* Handlers registered under the name foo and under the name foo followed
\* by a space, and pushes with these names and with a name nobody
\* registered for.
NameListeners == 2

NameKeys == {<<"foo">>, <<"foo", " ">>}

NameFrames ==
  {TextFrame(JsonText(Push(AbsentId, ev, "d1"))) : ev \in NameKeys \cup {<<"bar">>}}

NextNames ==
  \/ \E e \in NameKeys, h \in Handlers : on(e, h, NameListeners)
  \/ \E t \in Sockets : OnOpen(t)
  \/ \E t \in Sockets, raw \in NameFrames : OnMessage(t, raw)

SpecNames == Init /\ [][NextNames]_vars

\* Handlers registered and removed around requests, pushes and the end of
\* one socket and the start of the next.
CycleSockets == 2
CycleRequests == 1
CycleListeners == 1

CycleFrames ==
  {TextFrame(JsonText(Response(i, "true", FALSE, <<>>, FALSE, <<>>, "d1"))) :
     i \in 1..CycleRequests}
  \cup {TextFrame(JsonText(Push(AbsentId, <<"foo">>, "d1")))}

NextCycle ==
  \/ \E h \in Handlers : on(<<"foo">>, h, CycleListeners)
  \/ \E h \in Handlers : off(<<"foo">>, h)
  \/ connect(CycleSockets)
  \/ disconnect
  \/ \E e \in ReqEvents : request(e, CycleRequests)
  \/ timeout
  \/ \E t \in Sockets : OnOpen(t)
  \/ \E t \in Sockets, raw \in CycleFrames : OnMessage(t, raw)
  \/ \E t \in Sockets : OnError(t)
  \/ \E t \in Sockets, ev \in AllCloseEvents : OnClose(t, ev)

SpecCycle == Init /\ [][NextCycle]_vars

\* A hello delivered to connect callbacks and handlers of hello, some of
\* which throw.
HelloListeners == 2

NextHello ==
  \/ \E cb \in Callbacks : onConnect(cb)
  \/ \E h \in Handlers : on(HELLO, h, HelloListeners)
  \/ \E t \in Sockets : OnOpen(t)
  \/ \E t \in Sockets, raw \in SlotFrames : OnMessage(t, raw)

SpecHello == Init /\ [][NextHello]_vars

\* Push dispatch to lists of handlers, some of which throw.
PushListeners == 3

PushFrames == {TextFrame(JsonText(m)) : m \in PushMsgs}

\* The arguments off() is called with: registered and unregistered event
\* names, a handler or none.
OffEvents == EventKeys \cup {<<"bar">>}
OffHandlers == Handlers \cup {0}

NextPush ==
  \/ \E e \in EventKeys, h \in Handlers : on(e, h, PushListeners)
  \/ \E e \in OffEvents, h \in OffHandlers : off(e, h)
  \/ \E t \in Sockets : OnOpen(t)
  \/ \E t \in Sockets, raw \in PushFrames : OnMessage(t, raw)

SpecPush == Init /\ [][NextPush]_vars

\* ------------------------------------------------------------ the claims
\* The promises whose settle record is in the pending map.
PendingPromises == {pending[id] : id \in DOMAIN pending}

\* The message a frame parses to.
MsgOf(raw) == parseMessage(raw)

\* The frames of the request/response traffic, each with the value
\* parseMessage returns for it.
CoreParsed == {<<raw, parseMessage(raw)>> : raw \in CoreFrames}

\* C1: every request is settled at most once and is in the pending map
\* exactly while it is not settled; once settled, no step settles it again
\* or puts its id back, and a response without event for an id that is not
\* pending, or a timer whose id is not pending, changes no channel state.
C1_Once ==
  \A p \in Promises :
    /\ Len(settled[p]) <= 1
    /\ (settled[p] = <<>>) <=> (promises[p] \in DOMAIN pending)
    /\ settled[p] = <<>> => pending[promises[p]] = p

C1_LaterTriggerNoOp ==
  /\ \A p \in Promises :
       settled[p] # <<>> => settled'[p] = settled[p] /\ promises[p] \notin DOMAIN pending'
  /\ last'.op = "message" =>
       \A f \in CoreParsed :
         (/\ HasId(f[2]) /\ ~Matches(f[2]) /\ ~f[2].hasEvent
          /\ OnMessage(last'.t, f[1]))
           => UNCHANGED <<channelVars, settled, socks, timers>>
  /\ (last'.op = "timeout" /\ timers # <<>> /\ Head(timers).id \notin DOMAIN pending)
       => UNCHANGED <<channelVars, settled, socks>>

\* C1: at most one settlement per request, and later triggers are no-ops.
C1_SettledAtMostOnce == [](C1_Once) /\ [][C1_LaterTriggerNoOp]_vars

\* A request was resolved by its response and its timer ran afterwards.
C1_Witness ==
  /\ last.op = "timeout"
  /\ timers = <<>>
  /\ \E p \in Promises : Len(settled[p]) = 1 /\ settled[p][1].kind = "resolve"

\* C2: every request made is eventually settled and its id eventually is
\* out of the pending map, provided timers run.
C2_EventuallySettled ==
  \A p \in 1..MaxRequests :
    (Len(promises) >= p)
      ~> (Len(promises) >= p /\ settled[p] # <<>> /\ promises[p] \notin DOMAIN pending)

\* A request that was never sent, made with no socket referred to, was
\* settled by its timer.
C2_Witness ==
  /\ last.op = "timeout"
  /\ ws = 0
  /\ \E p \in Promises : settled[p] = <<Rejected(ErrRequestTimeout)>>

\* C3: a response with id i settles the request that was given id i, and
\* only that one, with the response's own content: it resolves with the
\* response message unless success is false, and then it rejects.
C3_Step ==
  last'.op = "message" =>
    \A f \in CoreParsed :
      (Matches(f[2]) /\ OnMessage(last'.t, f[1])) =>
        \A p \in Promises :
          IF promises[p] = f[2].id
          THEN /\ Len(settled'[p]) = Len(settled[p]) + 1
               /\ LET o == settled'[p][Len(settled'[p])] IN
                    /\ f[2].success # "false" => o = Resolved(f[2])
                    /\ f[2].success = "false" => o.kind = "reject"
               /\ promises[p] \notin DOMAIN pending'
          ELSE /\ settled'[p] = settled[p]
               /\ promises[p] \in DOMAIN pending' <=> promises[p] \in DOMAIN pending

\* C3: every response step settles by id.
C3_MatchedById == [][C3_Step]_vars

\* The response of the second request arrived while the first is pending.
C3_Witness ==
  /\ Len(promises) = 2
  /\ last.op = "message"
  /\ settled[1] = <<>>
  /\ 1 \in DOMAIN pending
  /\ Len(settled[2]) = 1
  /\ settled[2][1].kind = "resolve"
  /\ settled[2][1].value.id = 2

\* C4: the k-th request() call is given id k, whatever connect(),
\* disconnect() and close events happened in between.
C4_IdsIncrease ==
  /\ nextId = Len(promises) + 1
  /\ \A p \in Promises : promises[p] = p

\* The second request was made and sent on the second socket after the
\* first request was rejected by a close.
C4_Witness ==
  /\ last.op = "request"
  /\ last.sentOn = 2
  /\ last.sentId = 2
  /\ Len(promises) = 2
  /\ settled[1] = <<Rejected(ErrConnectionClosed)>>

\* C5: the close event of the socket the channel refers to rejects every
\* pending request with the connection-closed error, empties the pending
\* map, clears ws and helloReceived, and invokes the disconnect callback,
\* when one is registered, with the event's code and reason.
C5_Step ==
  \A t \in Sockets, ev \in AllCloseEvents :
    (last'.op = "close" /\ ws = t /\ OnClose(t, ev)) =>
      /\ \A p \in Promises :
           settled'[p] = IF p \in PendingPromises
                         THEN Append(settled[p], Rejected(ErrConnectionClosed))
                         ELSE settled[p]
      /\ pending' = EmptyMap
      /\ ws' = 0
      /\ helloReceived' = FALSE
      /\ IF disconnectCallback # 0
         THEN last'.cb = disconnectCallback /\ last'.code = ev.code /\ last'.reason = ev.reason
         ELSE last'.cb = 0

\* C5: every close event of the referred socket rejects all and clears.
C5_CloseRejectsAll == [][C5_Step]_vars

\* The close event of the referred socket ran with two requests pending
\* and a disconnect callback registered.
C5_Witness ==
  /\ last.op = "close"
  /\ last.owned
  /\ last.cb = 1
  /\ last.code = 1000
  /\ Len(promises) = 2
  /\ \A p \in Promises : settled[p] = <<Rejected(ErrConnectionClosed)>>
  /\ pending = EmptyMap

\* C6 as stated: the error event of the socket the channel refers to clears
\* ws and helloReceived, rejects every pending request with the
\* connection-closed error, empties the pending map and invokes the
\* disconnect callback.
C6_ErrorStepAsClose ==
  \A t \in Sockets :
    (OnError(t) /\ ws = t) =>
      /\ ws' = 0
      /\ helloReceived' = FALSE
      /\ pending' = EmptyMap
      /\ \A p \in PendingPromises :
           settled'[p] = Append(settled[p], Rejected(ErrConnectionClosed))
      /\ disconnectCallback # 0 => last'.cb = disconnectCallback

\* C6 as stated: every error event of the referred socket acts as a close.
C6_ErrorActsAsClose == [][C6_ErrorStepAsClose]_vars

\* C6 amended: the error event only invokes the disconnect callback, when
\* one is registered, with an undefined code and an empty reason, and
\* leaves ws, helloReceived, the pending map and every promise as they
\* are; the close event of the same socket is the next step, and that one
\* clears ws and helloReceived, rejects the pending requests and empties
\* the pending map.
C6_ErrorStep ==
  \A t \in Sockets :
    OnError(t) =>
      /\ UNCHANGED <<channelVars, settled, timers>>
      /\ IF disconnectCallback # 0
         THEN last'.cb = disconnectCallback /\ last'.code = UndefinedCode /\ last'.reason = ""
         ELSE last'.cb = 0

C6_CloseFollows ==
  closeTask # NoTask =>
    /\ last'.op = "close"
    /\ last'.t = closeTask.t
    /\ ws' = 0
    /\ helloReceived' = FALSE
    /\ pending' = EmptyMap
    /\ \A p \in PendingPromises :
         settled'[p] = Append(settled[p], Rejected(ErrConnectionClosed))

\* C6 amended: every error event only notifies, and its close event follows.
C6_ErrorOnlyNotifies == [][C6_ErrorStep /\ C6_CloseFollows]_vars

\* The error event of the referred socket ran with a request pending and a
\* disconnect callback registered, and the request is still pending.
C6_Witness ==
  /\ last.op = "error"
  /\ last.owned
  /\ last.cb = 1
  /\ last.code = UndefinedCode
  /\ ws = last.t
  /\ DOMAIN pending # {}

\* C7: connected is true only if the socket the channel refers to is open
\* and a hello push arrived on that very socket.
C7_ConnectedAfterHello ==
  connected => (socks[ws] = "OPEN" /\ helloSeen[ws])

\* C8: a hello push invokes the registered connect callback if it is the
\* first hello of its socket, and invokes nothing if it is a later one.
C8_Step ==
  \A t \in Sockets, raw \in CoreFrames :
    (OnMessage(t, raw) /\ IsHello(MsgOf(raw))) =>
      last'.cb = IF helloSeen[t] THEN 0 ELSE connectCallback

\* C8: every hello step invokes the connect callback once per socket.
C8_ConnectCallbackOnce == [][C8_Step]_vars

\* C9: at most one socket created by the channel has not yet delivered its
\* close event.
C9_OneLiveSocket ==
  Cardinality({t \in Sockets : ~FullyClosed(t)}) <= 1

\* C10: connect() called while ws refers to a socket creates no socket and
\* changes no variable of the channel and nothing of its sockets, timers
\* and promises.
C10_Step ==
  (last'.op = "connect" /\ ws # 0) =>
    UNCHANGED <<channelVars, socks, helloSeen, closeTask, timers, promises, settled>>

\* C10: every connect() step with a socket referred to changes nothing.
C10_ConnectIdempotent == [][C10_Step]_vars

\* connect() was called in the ready state, with a request pending and a
\* listener and both callbacks registered, and the channel is still
\* connected over the same socket.
C10_Witness ==
  /\ last.op = "connect"
  /\ connected
  /\ helloSeen[ws]
  /\ Len(socks) = 1
  /\ DOMAIN pending # {}
  /\ connectCallback = 1
  /\ disconnectCallback = 1
  /\ listeners[HELLO] = <<1>>

\* C11: disconnect() closes the socket the channel refers to, when there is
\* one, clears ws and helloReceived and leaves the pending map, the listener
\* map, the id counter and both callbacks as they are; it settles no
\* request and creates no socket.  Called with no socket referred to it
\* does nothing more than clear helloReceived, and called again right after
\* a disconnect() it changes nothing at all.
C11_Step ==
  last'.op = "disconnect" =>
    /\ ws' = 0
    /\ helloReceived' = FALSE
    /\ Len(socks') = Len(socks)
    /\ \A t \in Sockets :
         socks'[t] = IF t = ws /\ socks[t] \in {"CONNECTING", "OPEN"}
                     THEN "CLOSING"
                     ELSE socks[t]
    /\ UNCHANGED <<nextId, pending, listeners, connectCallback,
                   disconnectCallback, settled, timers, promises, closeTask>>
    /\ ws = 0 => UNCHANGED socks
    /\ last.op = "disconnect" =>
         UNCHANGED <<channelVars, socks, settled, timers, promises, closeTask>>

\* C11: every disconnect() step has exactly this effect.
C11_DisconnectFrame == [][C11_Step]_vars

\* disconnect() was called a second time, with a request pending, a listener
\* and both callbacks registered and the socket it released still closing.
C11_Witness ==
  /\ last.op = "disconnect"
  /\ ws = 0
  /\ ~helloReceived
  /\ socks = <<"CLOSING">>
  /\ helloSeen[1]
  /\ DOMAIN pending = {1}
  /\ settled = << <<>> >>
  /\ listeners[HELLO] = <<1>>
  /\ connectCallback = 1
  /\ disconnectCallback = 1

\* C12: a push whose trimmed event name is e calls every handler in the
\* list registered for e, once per entry and in the order of the list, each
\* with the message's data and the message itself; a handler that throws
\* does not keep the later ones from being called, and no exception leaves
\* the message handler.
C12_Step ==
  \A raw \in PushFrames :
    (last'.op = "message" /\ IsPush(MsgOf(raw)) /\ OnMessage(last'.t, raw)) =>
      LET msg == MsgOf(raw)
          list == IF EventOf(msg) \in DOMAIN listeners
                  THEN listeners[EventOf(msg)]
                  ELSE <<>> IN
        /\ Len(calls') = Len(list)
        /\ \A i \in 1..Len(list) :
             /\ calls'[i].fn = list[i]
             /\ calls'[i].data = msg.data
             /\ calls'[i].msg = msg
        /\ ~last'.threw

\* C12: every push step fans out in registration order.
C12_FanOutInOrder == [][C12_Step]_vars

\* A push for foo was dispatched to three handlers of which the second
\* threw, and the third was called after it.
C12_Witness ==
  /\ last.op = "message"
  /\ listeners[<<"foo">>] = <<1, 2, 1>>
  /\ Len(calls) = 3
  /\ calls[1].fn = 1
  /\ calls[2].fn = 2 /\ calls[2].threw
  /\ calls[3].fn = 1 /\ ~calls[3].threw
  /\ ~last.threw

\* C13: off(event, h) removes one entry of the event's list, the earliest
\* one that is h, and keeps the others in their order, later entries that
\* are h included; off(event) empties that event's list; no call changes
\* the list of another event, and a call for a handler that is not in the
\* list or an event that has no list changes nothing.
C13_Step ==
  \A e \in OffEvents, h \in OffHandlers :
    (last'.op = "off" /\ off(e, h)) =>
      /\ DOMAIN listeners' = DOMAIN listeners
      /\ \A o \in DOMAIN listeners \ {e} : listeners'[o] = listeners[o]
      /\ e \in DOMAIN listeners =>
           LET old == listeners[e]
               new == listeners'[e] IN
             IF h = 0 THEN new = <<>>
             ELSE IF \A i \in 1..Len(old) : old[i] # h THEN new = old
             ELSE \E i \in 1..Len(old) :
                    /\ old[i] = h
                    /\ \A j \in 1..(i - 1) : old[j] # h
                    /\ Len(new) = Len(old) - 1
                    /\ \A k \in 1..Len(new) :
                         new[k] = IF k < i THEN old[k] ELSE old[k + 1]
      /\ UNCHANGED <<nextId, pending, ws, helloReceived, connectCallback,
                     disconnectCallback, socks, settled, timers, promises>>

\* C13: every off() step removes the earliest matching registration only.
C13_OffRemovesEarliest == [][C13_Step]_vars

\* off(foo, 1) was called on the list <<1, 2, 1>>: the first entry is gone,
\* the later registration of the same handler is kept behind handler 2, and
\* the list of hello is as it was.
C13_Witness ==
  /\ last.op = "off"
  /\ listeners[<<"foo">>] = <<2, 1>>
  /\ listeners[HELLO] = <<1, 1, 2>>

\* The frames of SpecShapes and of SpecMsg, each with the value
\* parseMessage returns for it.
MsgParsed == {<<raw, parseMessage(raw)>> : raw \in MsgFrames}
ReplyParsed == {<<raw, parseMessage(raw)>> : raw \in ReplyFrames}

\* C14: a response that matches a pending request rejects it exactly when
\* success is false, with the server's error strings joined, or with
\* "Request failed" when errors is absent or an empty list; any other
\* response resolves it with the response message.
C14_Step ==
  last'.op = "message" =>
    \A f \in MsgParsed :
      LET msg == f[2] IN
        (Matches(msg) /\ OnMessage(last'.t, f[1])) =>
          LET p == pending[msg.id]
              o == settled'[p][Len(settled'[p])] IN
            /\ Len(settled'[p]) = Len(settled[p]) + 1
            /\ IF msg.success = "false"
               THEN o = Rejected(IF msg.hasErrors /\ msg.errors # <<>>
                                 THEN Join(msg.errors)
                                 ELSE ErrRequestFailed)
               ELSE o = Resolved(msg)

\* C14: every matching response settles with this outcome.
C14_ResponseOutcome == [][C14_Step]_vars

\* C15: a message with an id that matches no pending request and with no
\* event is dropped: the step changes nothing of the channel, settles
\* nothing and calls no listener and no callback.  With an event it is
\* dispatched as a push of that event, and it settles nothing either.
C15_Step ==
  last'.op = "message" =>
    \A f \in ReplyParsed :
      LET msg == f[2] IN
        (HasId(msg) /\ ~Matches(msg) /\ OnMessage(last'.t, f[1])) =>
          /\ UNCHANGED <<pending, settled, nextId, listeners, ws, connectCallback,
                         disconnectCallback, socks, timers, promises>>
          /\ ~last'.threw
          /\ IF msg.hasEvent /\ EventOf(msg) # <<>>
             THEN /\ calls' = IF EventOf(msg) \in DOMAIN listeners
                              THEN Dispatch(listeners[EventOf(msg)], msg)
                              ELSE <<>>
                  /\ IF EventOf(msg) = HELLO
                     THEN helloReceived' /\ last'.cb = connectCallback
                     ELSE UNCHANGED helloReceived /\ last'.cb = 0
             ELSE /\ calls' = <<>>
                  /\ last'.cb = 0
                  /\ UNCHANGED helloReceived

\* C15: every message with an unmatched id is dropped or dispatched.
C15_UnmatchedId == [][C15_Step]_vars

\* A message with id 1 and event hello arrived after request 1 had timed
\* out: it was dispatched to the hello listener and the connect callback,
\* and the request has its one timeout rejection.
C15_Witness ==
  /\ last.op = "message"
  /\ last.cb = 1
  /\ helloReceived
  /\ Len(calls) = 1
  /\ calls[1].msg.id = 1
  /\ settled = << <<Rejected(ErrRequestTimeout)>> >>

\* C16: a message whose id matches a pending request only settles that
\* request, also when it has an event: no listener is called, and when the
\* event is hello, helloReceived is not set and the connect callback is not
\* called.
C16_Step ==
  last'.op = "message" =>
    \A f \in ReplyParsed :
      LET msg == f[2] IN
        (Matches(msg) /\ OnMessage(last'.t, f[1])) =>
          /\ calls' = <<>>
          /\ last'.cb = 0
          /\ UNCHANGED <<helloReceived, helloSeen, listeners, connectCallback>>
          /\ msg.id \notin DOMAIN pending'
          /\ Len(settled'[pending[msg.id]]) = Len(settled[pending[msg.id]]) + 1

\* C16: every matching message is handled as a response only.
C16_ResponseOnly == [][C16_Step]_vars

\* The response of request 1 carried the event hello: the request is
\* resolved with it, and with a hello listener and a connect callback
\* registered the channel is not ready and nothing was called.
C16_Witness ==
  /\ last.op = "message"
  /\ Len(settled) = 1
  /\ Len(settled[1]) = 1
  /\ settled[1][1].kind = "resolve"
  /\ settled[1][1].value.hasEvent
  /\ settled[1][1].value.event = HELLO
  /\ socks = <<"OPEN">>
  /\ ~helloReceived
  /\ listeners[HELLO] = <<1>>
  /\ connectCallback = 1
  /\ calls = <<>>
  /\ last.cb = 0

\* C17: request() raises nothing: every call takes the next id, puts a
\* settle record for a new promise under it and returns the promise; the
\* frame with that id is sent once, on the socket the channel refers to,
\* when that socket is open, with helloReceived set or not, and no frame is
\* sent when there is no such socket or it is connecting or closing.
C17_Step ==
  last'.op = "request" =>
    LET p == Len(promises) + 1 IN
      /\ ~last'.threw
      /\ nextId' = nextId + 1
      /\ promises' = Append(promises, nextId)
      /\ DOMAIN pending' = DOMAIN pending \cup {nextId}
      /\ pending'[nextId] = p
      /\ \A id \in DOMAIN pending : pending'[id] = pending[id]
      /\ settled' = Append(settled, <<>>)
      /\ IF ws # 0 /\ socks[ws] = "OPEN"
         THEN last'.sentOn = ws /\ last'.sentId = nextId
         ELSE last'.sentOn = 0 /\ last'.sentId = 0

\* C17: every request() step registers, and sends exactly when open.
C17_RequestSendsWhenOpen == [][C17_Step]_vars

\* request() was called on the open socket before any hello arrived, and
\* its frame was sent.
C17_Witness ==
  /\ last.op = "request"
  /\ last.sentOn = 1
  /\ last.sentId = 1
  /\ socks = <<"OPEN">>
  /\ ~helloReceived
  /\ ~helloSeen[1]
  /\ DOMAIN pending = {1}

\* C18: a timer that runs while its request is pending removes that request
\* from the pending map and rejects its promise with the timeout error,
\* which is neither of the errors a response or a close rejects with, and
\* leaves every other request as it is; a timer that runs when its request
\* is no longer pending changes nothing.
C18_Step ==
  /\ (last'.op = "timeout" /\ timers # <<>>) =>
       LET tm == Head(timers) IN
         /\ UNCHANGED <<nextId, listeners, ws, helloReceived, connectCallback,
                        disconnectCallback, socks, promises>>
         /\ IF tm.id \in DOMAIN pending
            THEN /\ DOMAIN pending' = DOMAIN pending \ {tm.id}
                 /\ \A id \in DOMAIN pending' : pending'[id] = pending[id]
                 /\ \A p \in Promises :
                      settled'[p] = IF p = pending[tm.id]
                                    THEN Append(settled[p], Rejected(ErrRequestTimeout))
                                    ELSE settled[p]
            ELSE UNCHANGED <<pending, settled>>
  /\ last'.op # "timeout" =>
       \A p \in Promises :
         Len(settled'[p]) > Len(settled[p]) =>
           settled'[p][Len(settled'[p])] # Rejected(ErrRequestTimeout)

\* C18: every timer step rejects its own pending request only.
C18_TimeoutRejectsOwn == [][C18_Step]_vars

\* The timer of the first request ran while both requests were pending: the
\* first is rejected with the timeout error and the second is still pending.
C18_Witness ==
  /\ last.op = "timeout"
  /\ Len(promises) = 2
  /\ settled = << <<Rejected(ErrRequestTimeout)>>, <<>> >>
  /\ DOMAIN pending = {2}
  /\ Len(timers) = 1

\* C19: the message handler run for a frame that is not the text of a JSON
\* object (text that does not parse, an empty or non-string payload, the
\* text of a number, string, boolean, null or array) raises nothing and
\* leaves the pending map, the listener map, helloReceived and ws as they
\* are.
C19_Step ==
  last'.op = "message" =>
    \A raw \in MalformedFrames :
      OnMessage(last'.t, raw) =>
        /\ ~last'.threw
        /\ UNCHANGED <<pending, listeners, helloReceived, ws>>

\* C19: every frame that is no message is discarded without an exception.
C19_MalformedIgnored == [][C19_Step]_vars

\* The text has a part that is the text of a JSON object.
HasObjectSpan(text) ==
  \E i, j \in 1..Len(text) :
    i < j /\ text[i].ch = "{" /\ text[j].ch = "}" /\ JsonParses(SubSeq(text, i, j))

HasTok(text, c) == \E i \in 1..Len(text) : text[i].ch = c

C21_Step ==
  /\ \A cb \in SlotCallbacks :
       (last'.op = "onConnect" /\ onConnect(cb)) =>
         connectCallback' = cb /\ UNCHANGED disconnectCallback /\ last'.cb = 0
  /\ \A cb \in SlotCallbacks :
       (last'.op = "onDisconnect" /\ onDisconnect(cb)) =>
         disconnectCallback' = cb /\ UNCHANGED connectCallback /\ last'.cb = 0
  /\ last'.op \notin {"onConnect", "onDisconnect"} =>
       UNCHANGED <<connectCallback, disconnectCallback>>
  /\ last'.op = "message" =>
       /\ \A raw \in SlotFrames :
            OnMessage(last'.t, raw) =>
              last'.cb = IF IsHello(MsgOf(raw)) THEN connectCallback ELSE 0
       /\ last'.cb \notin replaced.connect
  /\ last'.op \in {"close", "error"} =>
       /\ last'.cb = disconnectCallback
       /\ last'.cb \notin replaced.disconnect
  /\ last'.op \notin {"message", "close", "error"} => last'.cb = 0

\* C21: every step uses the callback registered last.
C21_SingleSlot == [][C21_Step]_vars

\* A hello push invoked connect callback 2 after it took the place of
\* callback 1, with disconnect callback 1 replaced by callback 2 as well.
C21_Witness ==
  /\ last.op = "message"
  /\ last.cb = 2
  /\ connectCallback = 2
  /\ replaced.connect = {1}
  /\ disconnectCallback = 2
  /\ replaced.disconnect = {1}

\* C22: after disconnect() closed the socket the channel referred to, the
\* requests that were pending stay pending until the close event of that
\* socket: the step after the call settles one of them only if it is its
\* timer, a response, or the close event of the socket disconnect() closed;
\* and every close event rejects all requests that are pending with the
\* connection-closed error and empties the pending map.
C22_Step ==
  /\ (last.op = "disconnect" /\ last.t # 0) =>
       \A p \in PendingPromises :
         settled'[p] # settled[p] =>
           \/ last'.op \in {"timeout", "message"}
           \/ last'.op = "close" /\ last'.t = last.t
  /\ last'.op = "close" =>
       /\ pending' = EmptyMap
       /\ \A p \in PendingPromises :
            settled'[p] = Append(settled[p], Rejected(ErrConnectionClosed))

\* C22: requests pending at disconnect() wait for the close of its socket.
C22_PendingUntilClose == [][C22_Step]_vars

\* C24: the close event of a socket that is not the one the channel refers
\* to, while it refers to a newer one, leaves ws and helloReceived as they
\* are, and does not reject the request that was just sent on the newer
\* socket.
C24_Step ==
  (last'.op = "close" /\ ws # 0 /\ last'.t # ws) =>
    /\ ws' = ws
    /\ helloReceived' = helloReceived
    /\ (last.op = "request" /\ last.sentOn = ws) =>
         settled'[Len(promises)] = settled[Len(promises)]

\* C24: a stale close event does not touch the newer socket's channel.
C24_StaleCloseIgnored == [][C24_Step]_vars

\* C23: AppContent's connected becomes true only in a step after which the
\* device socket's connected is true, and a step in which the disconnect
\* callback ran leaves it false, also when the get_connection_count request
\* of the connect callback is pending at that step.
C23_Step ==
  /\ (~app.connected /\ app'.connected) => connected'
  /\ (last'.op \in {"close", "error"} /\ last'.cb = AppCallback) => ~app'.connected

\* C23: the displayed state is true only with the socket connected.
C23_UiFollowsSocket == [][C23_Step]_vars

\* A handler that does not take itself off the list.
IsOther(h) == h \notin SelfRemovingHandlers

\* C25: a push dispatched to a list in which a handler calls off(event,
\* itself) invokes every other handler that was in the list when the
\* dispatch began once, in the order of the list.
C25_Step ==
  \A raw \in OnceFrames :
    LET msg == MsgOf(raw)
        list == listeners[EventOf(msg)] IN
      (/\ last'.op = "message"
       /\ OnMessage(last'.t, raw)
       /\ \E i \in 1..Len(list) : list[i] \in SelfRemovingHandlers) =>
        SelectSeq([i \in 1..Len(calls') |-> calls'[i].fn], IsOther)
          = SelectSeq(list, IsOther)

\* C25: a handler that removes itself keeps no other handler from its call.
C25_SelfRemovalKeepsOthers == [][C25_Step]_vars

\* C26: a push whose event member is the string e calls the handlers that
\* on() registered under that same string, once each in their order, and
\* no handler registered under another string; it calls none when no
\* handler is registered under e.
C26_Step ==
  last'.op = "message" =>
    \A raw \in NameFrames :
      OnMessage(last'.t, raw) =>
        LET e == MsgOf(raw).event IN
          [i \in 1..Len(calls') |-> calls'[i].fn] = ListOf(e)

\* C26: every push is dispatched by the exact string of its event name.
C26_ExactName == [][C26_Step]_vars

\* C27: no call or handler other than on() and off() changes the listener
\* map: request(), responses, timers, the dispatch of a push, connect(),
\* disconnect(), and the open, error and close events of a socket leave the
\* list of every event as it is.
C27_Step == last'.op \notin {"on", "off"} => listeners' = listeners

\* C27: every step but on() and off() keeps the listener map.
C27_ListenersKept == [][C27_Step]_vars

\* A push delivered by the second socket was dispatched to the handler in
\* the list of foo after the first socket, closed by disconnect(), had
\* delivered its close event.
C27_Witness ==
  /\ last.op = "message"
  /\ last.t = 2
  /\ socks = <<"CLOSED", "OPEN">>
  /\ listeners[<<"foo">>] = <<1>>
  /\ Len(calls) = 1
  /\ calls[1].fn = 1

\* C28: in every reachable state the ready flag is set only while a socket
\* is owned; a frame delivered by a socket that was already released neither
\* sets the flag nor invokes the connect callback.
C28_ReadyImpliesSocket == helloReceived => ws # 0

\* C29: the disconnect callback is invoked at most once for a socket that is
\* lost: when the error event of a socket has invoked it, the close event
\* of the same socket does not invoke it again.
C29_Step ==
  ~ /\ last.op = "error"
    /\ last.cb # 0
    /\ last'.op = "close"
    /\ last'.t = last.t
    /\ last'.cb # 0

\* C29: no socket invokes the disconnect callback for its error event and
\* again for its close event.
C29_OncePerSocket == [][C29_Step]_vars

\* C30: what the connect callback throws while a hello is handled does not
\* leave the message handler, the hello is still dispatched to every
\* handler registered for hello, and the ready flag is set.
C30_Step ==
  (last'.op = "message" /\ last'.cb \in ThrowingCallbacks) =>
    /\ ~last'.threw
    /\ Len(calls') = Len(listeners[HELLO])
    /\ helloReceived'

\* C30: a throwing connect callback neither escapes nor stops the dispatch
\* of the hello.
C30_CallbackContained == [][C30_Step]_vars

====
